---- MODULE Spec2Model ----
(***************************************************************************)
(* Model of storage/tuple_access_strategy.h: BlockLayout (the layout       *)
(* calculator), the Block / MiniBlock physical format and the              *)
(* TupleAccessStrategy accessors (AccessWithNullCheck, AccessForceNotNull, *)
(* SetNull, Allocate).                                                     *)
(*                                                                         *)
(* Addresses are byte offsets from the start of the block.  A null bitmap  *)
(* is a function from slot to BOOLEAN; FALSE is the 0 bit, which means     *)
(* null (MiniBlock's "Warning, 0 means null").                             *)
(***************************************************************************)
EXTENDS Integers, Naturals, Sequences, FiniteSets, TLC

VARIABLES
  BLOCK_SIZE,   \* Constants::BLOCK_SIZE, the configured size of a block in bytes
  schema,       \* the arguments of BlockLayout's constructor
  stage,        \* "schema" -> "layout" (BlockLayout built) -> "block" (initialized)
  layout_,      \* TupleAccessStrategy::layout_, the BlockLayout
  block,        \* the Block header fields
  bitmaps,      \* bitmaps[a][s]: bit s of the null bitmap at block offset a
  pc,           \* per thread: "idle", or "Allocate" while inside Allocate
  i,            \* per thread: Allocate's loop variable
  offset,       \* per thread: the caller's variable Allocate writes its result to
  last,         \* the last completed call of the single caller and its result
  prev,         \* the completed call before last
  history,      \* the results of the completed Allocate calls, in order
  held,         \* held[s]: Allocate returns of slot s since s was last freed
  forced,       \* forced[s]: columns forced not-null since Allocate last returned s
  written,      \* written[s]: columns forced not-null and not set null since
  onlyAllocate, \* no operation other than Allocate has been called on the block
  disciplined,  \* every AccessForceNotNull and SetNull so far was on a held slot
  nCalls,       \* number of calls started on the block
  intended,     \* intended[c][s]: the value the last operation on bit (c, s) set
  tried,        \* per thread in Allocate: the indices its Flip has failed at so far
  sawFull,      \* per thread in Allocate: every slot was claimed at some moment
  sawClaimed    \* per thread in Allocate: the slots claimed at some moment

vars == <<BLOCK_SIZE, schema, stage, layout_, block, bitmaps, pc, i, offset,
          last, prev, history, held, forced, written, onlyAllocate, disciplined,
          nCalls, intended, tried, sawFull, sawClaimed>>

----------------------------------------------------------------------------
(* Bounds of the model *)

\* number of columns of the enumerated narrow layouts
MaxAttrs == 2
\* largest slot count of a block the accessor specifications operate on
MaxSlots == 3
\* number of threads sharing the block
NumThreads == 2
\* number of calls made on one block
MaxCalls == 4

\* attribute sizes the enumerated layouts draw from (uint8_t, at least 1)
AttrSizeChoices == {4, 8, 255}
\* configured block sizes: small ones, and the 1 MB of the header comment
BlockSizeChoices == {48, 85, 4096, 65536, 1048576}
\* column count of the enumerated wide layouts (uint16_t)
WideAttrChoices == {4200, 65535}
\* attribute sizes of the wide layouts
WideSizeChoices == {255}
\* block ids handed to InitializeRawBlock
BlockIdChoices == {7}

Threads == 1..NumThreads

----------------------------------------------------------------------------
(* 32-bit unsigned values beyond 2^31 - 1: two 16-bit limbs *)

Two16 == 256 * 256

U32(n) == [hi |-> n \div Two16, lo |-> n % Two16]

\* u - 1 in uint32_t arithmetic: 0 - 1 wraps to 2^32 - 1
U32Dec(u) ==
  IF u.lo > 0 THEN [hi |-> u.hi, lo |-> u.lo - 1]
  ELSE IF u.hi > 0 THEN [hi |-> u.hi - 1, lo |-> Two16 - 1]
  ELSE [hi |-> Two16 - 1, lo |-> Two16 - 1]

\* the number a uint32_t below 2^31 stands for
U32Val(u) == u.hi * Two16 + u.lo

U32Small(u) == u.hi < Two16 \div 2

\* u + v in uint32_t
U32Add(u, v) ==
  LET lo == u.lo + v.lo
      hi == u.hi + v.hi + lo \div Two16
  IN [hi |-> hi % Two16, lo |-> lo % Two16]

\* u * k in uint32_t, for k below 2^15
U32Times(u, k) ==
  LET lo == u.lo * k
      hi == u.hi * k + lo \div Two16
  IN [hi |-> hi % Two16, lo |-> lo % Two16]

----------------------------------------------------------------------------
(* BlockLayout *)

RECURSIVE SumSizes(_, _, _)
SumSizes(attr_sizes, lo, hi) ==
  IF lo > hi THEN 0
  ELSE IF lo = hi THEN attr_sizes[lo]
  ELSE LET mid == (lo + hi) \div 2
       IN SumSizes(attr_sizes, lo, mid) + SumSizes(attr_sizes, mid + 1, hi)

ComputeTupleSize(num_attrs, attr_sizes) == SumSizes(attr_sizes, 0, num_attrs - 1)

HeaderSize(num_attrs) == 4 * 3 + num_attrs * 4 + 2 + num_attrs * 1

NumSlots(block_size, header_size, tuple_size, num_attrs) ==
  U32Dec(U32((8 * (block_size - header_size)) \div (8 * tuple_size + num_attrs)))

BlockLayout(block_size, num_attrs, attr_sizes) ==
  LET tuple_size == ComputeTupleSize(num_attrs, attr_sizes)
      header_size == HeaderSize(num_attrs)
  IN [num_attrs_   |-> num_attrs,
      attr_sizes_  |-> attr_sizes,
      tuple_size_  |-> tuple_size,
      header_size_ |-> header_size,
      num_slots_   |-> NumSlots(block_size, header_size, tuple_size, num_attrs)]

NoLayout ==
  [num_attrs_ |-> 0, attr_sizes_ |-> <<>>, tuple_size_ |-> 0,
   header_size_ |-> 0, num_slots_ |-> U32(0)]

\* bytes of a bitmap of n bits, padded up to a whole byte (concurrent_bitmap.h)
BitmapSize(n) == IF n % 8 = 0 THEN n \div 8 ELSE n \div 8 + 1

\* BitmapSize of a uint32_t slot count (at most 2^29, the count is not widened)
BitmapBytes(u) == u.hi * (Two16 \div 8) + BitmapSize(u.lo)

\* the bytes of mini-blocks lo..hi under a slot count of num_slots
RECURSIVE ContentSize(_, _, _, _)
ContentSize(attr_sizes, num_slots, lo, hi) ==
  IF lo > hi THEN 0
  ELSE IF lo = hi THEN BitmapSize(num_slots) + num_slots * attr_sizes[lo]
  ELSE LET mid == (lo + hi) \div 2
       IN ContentSize(attr_sizes, num_slots, lo, mid)
          + ContentSize(attr_sizes, num_slots, mid + 1, hi)

\* The header and the mini-blocks end at or before the end of the block.  A slot
\* count of 2^31 or more exceeds every block size (each column takes at least a
\* byte per slot).
LayoutFits(block_size, lay) ==
  /\ U32Small(lay.num_slots_)
  /\ lay.header_size_
       + ContentSize(lay.attr_sizes_, U32Val(lay.num_slots_), 0, lay.num_attrs_ - 1)
       <= block_size

----------------------------------------------------------------------------
(* RawConcurrentBitmap (common/concurrent_bitmap.h) *)

Test(bitmap, pos) == bitmap[pos]

\* Flip(pos, expected_val): the bit is flipped if and only if its current value
\* is expected_val, and the result tells whether the flip occurred.  This is the
\* reading the call sites fix: Flip(pos, false) is "Noop if not null" in
\* AccessForceNotNull and claims a free slot in Allocate, Flip(pos, true) is
\* "Noop if already null" in SetNull, and 0 means null.
FlipSucceeds(bitmap, pos, expected_val) == bitmap[pos] = expected_val

Flip(bitmap, pos, expected_val) ==
  IF bitmap[pos] = expected_val
  THEN [bitmap EXCEPT ![pos] = ~expected_val]
  ELSE bitmap

----------------------------------------------------------------------------
(* Block and MiniBlock *)

PRIMARY_KEY_OFFSET == 0

\* the offset of mini-block c, as the uint32_t the header stores
RECURSIVE AttrOffset32(_, _)
AttrOffset32(lay, c) ==
  IF c = 0 THEN U32(lay.header_size_)
  ELSE U32Add(U32Add(AttrOffset32(lay, c - 1), U32(BitmapBytes(lay.num_slots_))),
              U32Times(lay.num_slots_, lay.attr_sizes_[c - 1]))

AttrOffset(lay, c) == U32Val(AttrOffset32(lay, c))

InitializeRawBlock(lay, id) ==
  [block_id_    |-> id,
   num_records_ |-> 0,
   num_slots    |-> lay.num_slots_,
   attr_offsets |-> [c \in 0..(lay.num_attrs_ - 1) |-> AttrOffset(lay, c)],
   num_attrs    |-> lay.num_attrs_,
   attr_sizes   |-> lay.attr_sizes_]

\* the zero-filled content of a block: every bit of the null bitmap found at
\* each mini-block's start is 0
ZeroedBitmaps(blk, lay) ==
  [a \in {blk.attr_offsets[c] : c \in 0..(lay.num_attrs_ - 1)} |->
     [s \in 0..(U32Val(lay.num_slots_) - 1) |-> FALSE]]

NoBlock ==
  [block_id_ |-> 0, num_records_ |-> 0, num_slots |-> U32(0),
   attr_offsets |-> <<>>, num_attrs |-> 0, attr_sizes |-> <<>>]

\* mutant: the column offset is ignored, every column resolves to mini-block 0
Column_IgnoresOffset(blk, column_offset) == blk.attr_offsets[0]

\* Block::Column: the address of the mini-block, read from the block header
Column(blk, column_offset) == blk.attr_offsets[column_offset]

\* MiniBlock::ColumnStart: the values follow the bitmap
MiniBlockColumnStart(head, lay) == head + BitmapBytes(lay.num_slots_)

\* MiniBlock::NullBitmap: the bitmap is at the start of the mini-block
NullBitmap(head) == head

----------------------------------------------------------------------------
(* TupleAccessStrategy: each operation as the result it returns and the    *)
(* bitmaps it leaves                                                       *)

ColumnNullBitmap(blk, column_offset) == NullBitmap(Column(blk, column_offset))

ColumnStart(blk, lay, column_offset) ==
  MiniBlockColumnStart(Column(blk, column_offset), lay)

nullptr == [present |-> FALSE, addr |-> 0]

Pointer(a) == [present |-> TRUE, addr |-> a]

\* mutant: the null check is left out
AccessWithNullCheck_NoCheck(blk, lay, bms, column_offset, pos) ==
  [ret |-> Pointer(ColumnStart(blk, lay, column_offset)
                   + lay.attr_sizes_[column_offset] * pos),
   bitmaps |-> bms]

\* mutant: the bit is read with Flip instead of Test
AccessWithNullCheck_Flips(blk, lay, bms, column_offset, pos) ==
  LET a == ColumnNullBitmap(blk, column_offset)
  IN [ret |-> IF FlipSucceeds(bms[a], pos, FALSE)
              THEN nullptr
              ELSE Pointer(ColumnStart(blk, lay, column_offset)
                           + lay.attr_sizes_[column_offset] * pos),
      bitmaps |-> [bms EXCEPT ![a] = Flip(bms[a], pos, FALSE)]]

AccessWithNullCheck(blk, lay, bms, column_offset, pos) ==
  [ret |-> IF ~Test(bms[ColumnNullBitmap(blk, column_offset)], pos)
           THEN nullptr
           ELSE Pointer(ColumnStart(blk, lay, column_offset)
                        + lay.attr_sizes_[column_offset] * pos),
   bitmaps |-> bms]

\* mutant: Flip is given the wrong expected value
AccessForceNotNull_WrongExpected(blk, lay, bms, column_offset, pos) ==
  LET a == ColumnNullBitmap(blk, column_offset)
  IN [ret |-> Pointer(ColumnStart(blk, lay, column_offset)
                      + lay.attr_sizes_[column_offset] * pos),
      bitmaps |-> [bms EXCEPT ![a] = Flip(bms[a], pos, TRUE)]]

AccessForceNotNull(blk, lay, bms, column_offset, pos) ==
  LET a == ColumnNullBitmap(blk, column_offset)
  IN [ret |-> Pointer(ColumnStart(blk, lay, column_offset)
                      + lay.attr_sizes_[column_offset] * pos),
      bitmaps |-> [bms EXCEPT ![a] = Flip(bms[a], pos, FALSE)]]

\* mutant: Flip is given the wrong expected value
SetNull_WrongExpected(blk, lay, bms, column_offset, pos) ==
  LET a == ColumnNullBitmap(blk, column_offset)
  IN [bitmaps |-> [bms EXCEPT ![a] = Flip(bms[a], pos, FALSE)]]

\* mutant: the bit is inverted whatever its value
SetNull_Toggles(blk, lay, bms, column_offset, pos) ==
  LET a == ColumnNullBitmap(blk, column_offset)
  IN [bitmaps |-> [bms EXCEPT ![a] = [@ EXCEPT ![pos] = ~@]]]

\* mutant: the bitmap is cleared as a whole instead of one bit
SetNull_ClearsBitmap(blk, lay, bms, column_offset, pos) ==
  LET a == ColumnNullBitmap(blk, column_offset)
  IN [bitmaps |-> [bms EXCEPT ![a] = [s \in DOMAIN bms[a] |-> FALSE]]]

SetNull(blk, lay, bms, column_offset, pos) ==
  LET a == ColumnNullBitmap(blk, column_offset)
  IN [bitmaps |-> [bms EXCEPT ![a] = Flip(bms[a], pos, TRUE)]]

\* mutant: the result of Flip is ignored, the slot is returned in any case
AllocateIteration_IgnoresResult(blk, bms, idx) ==
  LET a == ColumnNullBitmap(blk, PRIMARY_KEY_OFFSET)
  IN [found |-> TRUE,
      bitmaps |-> [bms EXCEPT ![a] = Flip(bms[a], idx, FALSE)]]

\* mutant: the bit is tested and the slot returned without claiming it
AllocateIteration_TestOnly(blk, bms, idx) ==
  LET a == ColumnNullBitmap(blk, PRIMARY_KEY_OFFSET)
  IN [found |-> ~Test(bms[a], idx), bitmaps |-> bms]

\* One iteration of Allocate's loop at index idx < num_slots_: the Flip, and
\* whether the call returns true with offset = idx.
AllocateIteration(blk, bms, idx) ==
  LET a == ColumnNullBitmap(blk, PRIMARY_KEY_OFFSET)
  IN [found |-> FlipSucceeds(bms[a], idx, FALSE),
      bitmaps |-> [bms EXCEPT ![a] = Flip(bms[a], idx, FALSE)]]

\* mutant: the loop stops one slot early (i < num_slots_ - 1)
RECURSIVE Allocate_OffByOne(_, _, _, _, _)
Allocate_OffByOne(blk, lay, bms, idx, old_offset) ==
  IF idx < U32Val(lay.num_slots_) - 1
  THEN LET a == ColumnNullBitmap(blk, PRIMARY_KEY_OFFSET)
       IN IF FlipSucceeds(bms[a], idx, FALSE)
          THEN [ret |-> TRUE, offset |-> idx,
                bitmaps |-> [bms EXCEPT ![a] = Flip(bms[a], idx, FALSE)]]
          ELSE Allocate_OffByOne(blk, lay, bms, idx + 1, old_offset)
  ELSE [ret |-> FALSE, offset |-> old_offset, bitmaps |-> bms]

\* Allocate run from loop index idx to its return, with no other thread's
\* step in between.  old_offset is the value of the caller's variable.
RECURSIVE Allocate(_, _, _, _, _)
Allocate(blk, lay, bms, idx, old_offset) ==
  IF idx < U32Val(lay.num_slots_)
  THEN LET it == AllocateIteration(blk, bms, idx)
       IN IF it.found
          THEN [ret |-> TRUE, offset |-> idx, bitmaps |-> it.bitmaps]
          ELSE Allocate(blk, lay, it.bitmaps, idx + 1, old_offset)
  ELSE [ret |-> FALSE, offset |-> old_offset, bitmaps |-> bms]

----------------------------------------------------------------------------
(* The configurations the model enumerates *)

NarrowSchemas ==
  UNION {{[num_attrs |-> n, attr_sizes |-> f] : f \in [0..(n - 1) -> AttrSizeChoices]}
         : n \in 1..MaxAttrs}

WideSchemas ==
  {[num_attrs |-> n, attr_sizes |-> [c \in 0..(n - 1) |-> a]]
     : n \in WideAttrChoices, a \in WideSizeChoices}

Columns == 0..(layout_.num_attrs_ - 1)

Slots == 0..(U32Val(layout_.num_slots_) - 1)

SeqCaller == CHOOSE t \in Threads : \A u \in Threads : t <= u

NoCall == [op |-> "none", column_offset |-> 0, pos |-> 0, ok |-> FALSE, value |-> 0]

Call(op, column_offset, pos, ok, value) ==
  [op |-> op, column_offset |-> column_offset, pos |-> pos, ok |-> ok, value |-> value]

\* the state of the threads T and of the bookkeeping before any call
InitCallersOf(T) ==
  /\ pc = [t \in T |-> "idle"]
  /\ i = [t \in T |-> 0]
  /\ offset = [t \in T |-> 0]
  /\ last = NoCall
  /\ prev = NoCall
  /\ history = <<>>
  /\ onlyAllocate = TRUE
  /\ disciplined = TRUE
  /\ nCalls = 0
  /\ tried = [t \in T |-> <<>>]
  /\ sawFull = [t \in T |-> FALSE]
  /\ sawClaimed = [t \in T |-> {}]

InitCallers == InitCallersOf(Threads)

\* A schema and a block size are given; nothing is built yet.
InitSchema ==
  /\ BLOCK_SIZE \in BlockSizeChoices
  /\ schema \in NarrowSchemas \cup WideSchemas
  /\ HeaderSize(schema.num_attrs) < BLOCK_SIZE
  /\ stage = "schema"
  /\ layout_ = NoLayout
  /\ block = NoBlock
  /\ bitmaps = <<>>
  /\ held = <<>>
  /\ forced = <<>>
  /\ written = <<>>
  /\ intended = <<>>
  /\ InitCallers

\* A block the accessors can be used on: its layout fits the block, and its slot
\* count is within the model's bound.
Usable(block_size, lay) ==
  /\ LayoutFits(block_size, lay)
  /\ U32Val(lay.num_slots_) <= MaxSlots

\* A TupleAccessStrategy over a layout, and a zeroed block initialized under it,
\* shared by the threads T.
InitBlockOf(T) ==
  /\ BLOCK_SIZE \in BlockSizeChoices
  /\ schema \in NarrowSchemas
  /\ HeaderSize(schema.num_attrs) < BLOCK_SIZE
  /\ layout_ = BlockLayout(BLOCK_SIZE, schema.num_attrs, schema.attr_sizes)
  /\ Usable(BLOCK_SIZE, layout_)
  /\ stage = "block"
  /\ block \in {InitializeRawBlock(layout_, id) : id \in BlockIdChoices}
  /\ bitmaps = ZeroedBitmaps(block, layout_)
  /\ held = [s \in Slots |-> 0]
  /\ forced = [s \in Slots |-> {}]
  /\ written = [s \in Slots |-> {}]
  /\ intended = [c \in Columns |-> [s \in Slots |-> FALSE]]
  /\ InitCallersOf(T)

InitBlock == InitBlockOf(Threads)

----------------------------------------------------------------------------
(* Building the layout and initializing a block *)

Construct ==
  /\ stage = "schema"
  /\ layout_' = BlockLayout(BLOCK_SIZE, schema.num_attrs, schema.attr_sizes)
  /\ stage' = "layout"
  /\ UNCHANGED <<BLOCK_SIZE, schema, block, bitmaps, pc, i, offset, last, prev,
                 history, held, forced, written, onlyAllocate, nCalls,
                 disciplined, intended, tried, sawFull, sawClaimed>>

Initialize ==
  /\ stage = "layout"
  /\ Usable(BLOCK_SIZE, layout_)
  /\ \E id \in BlockIdChoices :
       /\ block' = InitializeRawBlock(layout_, id)
       /\ bitmaps' = ZeroedBitmaps(block', layout_)
  /\ stage' = "block"
  /\ held' = [s \in Slots |-> 0]
  /\ forced' = [s \in Slots |-> {}]
  /\ written' = [s \in Slots |-> {}]
  /\ intended' = [c \in Columns |-> [s \in Slots |-> FALSE]]
  /\ UNCHANGED <<BLOCK_SIZE, schema, layout_, pc, i, offset, last, prev,
                 history, onlyAllocate, nCalls,
                 disciplined, tried, sawFull, sawClaimed>>

\* InitializeRawBlock on a layout whose slots the model does not enumerate (more
\* than MaxSlots of them, a wrapped count included): the header is written, the
\* content of the mini-blocks is left out.
InitializeHeader ==
  /\ stage = "layout"
  /\ ~Usable(BLOCK_SIZE, layout_)
  /\ layout_.num_attrs_ <= MaxAttrs
  /\ \E id \in BlockIdChoices : block' = InitializeRawBlock(layout_, id)
  /\ stage' = "block"
  /\ UNCHANGED <<BLOCK_SIZE, schema, layout_, bitmaps, pc, i, offset, last, prev,
                 history, held, forced, written, onlyAllocate, nCalls,
                 disciplined, intended, tried, sawFull, sawClaimed>>

NextLayout == Construct \/ Initialize \/ InitializeHeader

SpecLayout == InitSchema /\ [][NextLayout]_vars

----------------------------------------------------------------------------
(* Calls on an initialized block.  AccessWithNullCheck, AccessForceNotNull  *)
(* and SetNull make one atomic bitmap access each.                          *)

CanCall(t) ==
  /\ stage = "block"
  /\ pc[t] = "idle"
  /\ nCalls < MaxCalls

\* ColumnNullBitmap and ColumnStart compute an address and access no memory
\* other than the header's attr_offsets
ColumnNullBitmapCall(t, column_offset) ==
  /\ CanCall(t)
  /\ onlyAllocate' = FALSE
  /\ nCalls' = nCalls + 1
  /\ UNCHANGED <<BLOCK_SIZE, schema, stage, layout_, block, bitmaps, pc, i,
                 offset, history, held, forced, written, disciplined, intended,
                 tried>>

ColumnStartCall(t, column_offset) ==
  /\ CanCall(t)
  /\ onlyAllocate' = FALSE
  /\ nCalls' = nCalls + 1
  /\ UNCHANGED <<BLOCK_SIZE, schema, stage, layout_, block, bitmaps, pc, i,
                 offset, history, held, forced, written, disciplined, intended,
                 tried>>

AccessWithNullCheckCall(t, column_offset, pos) ==
  /\ CanCall(t)
  /\ bitmaps' = AccessWithNullCheck(block, layout_, bitmaps, column_offset, pos).bitmaps
  /\ onlyAllocate' = FALSE
  /\ nCalls' = nCalls + 1
  /\ UNCHANGED <<BLOCK_SIZE, schema, stage, layout_, block, pc, i, offset,
                 history, held, forced, written, disciplined, intended, tried>>

AccessForceNotNullCall(t, column_offset, pos) ==
  /\ CanCall(t)
  /\ bitmaps' = AccessForceNotNull(block, layout_, bitmaps, column_offset, pos).bitmaps
  /\ forced' = [forced EXCEPT ![pos] = @ \cup {column_offset}]
  /\ written' = [written EXCEPT ![pos] = @ \cup {column_offset}]
  /\ disciplined' = (disciplined /\ held[pos] > 0)
  /\ intended' = [intended EXCEPT ![column_offset][pos] = TRUE]
  /\ onlyAllocate' = FALSE
  /\ nCalls' = nCalls + 1
  /\ UNCHANGED <<BLOCK_SIZE, schema, stage, layout_, block, pc, i, offset,
                 history, held, tried>>

SetNullCall(t, column_offset, pos) ==
  /\ CanCall(t)
  /\ bitmaps' = SetNull(block, layout_, bitmaps, column_offset, pos).bitmaps
  /\ written' = [written EXCEPT ![pos] = @ \ {column_offset}]
  /\ held' = IF column_offset = PRIMARY_KEY_OFFSET
             THEN [held EXCEPT ![pos] = 0]
             ELSE held
  /\ disciplined' = (disciplined /\ held[pos] > 0)
  /\ intended' = [intended EXCEPT ![column_offset][pos] = FALSE]
  /\ onlyAllocate' = FALSE
  /\ nCalls' = nCalls + 1
  /\ UNCHANGED <<BLOCK_SIZE, schema, stage, layout_, block, pc, i, offset,
                 history, forced, tried>>

\* what a completed Allocate leaves in the caller's variable and the bookkeeping
AllocateReturns(t, ret, new_offset) ==
  /\ offset' = [offset EXCEPT ![t] = new_offset]
  /\ history' = Append(history, [ok |-> ret, offset |-> new_offset])
  /\ held' = IF ret THEN [held EXCEPT ![new_offset] = @ + 1] ELSE held
  /\ forced' = IF ret THEN [forced EXCEPT ![new_offset] = {}] ELSE forced
  /\ intended' = IF ret
                 THEN [intended EXCEPT ![PRIMARY_KEY_OFFSET][new_offset] = TRUE]
                 ELSE intended
  /\ tried' = [tried EXCEPT ![t] = <<>>]

\* Allocate as one step: the caller runs alone.
AllocateCall(t) ==
  /\ CanCall(t)
  /\ LET r == Allocate(block, layout_, bitmaps, 0, offset[t])
     IN /\ bitmaps' = r.bitmaps
        /\ AllocateReturns(t, r.ret, r.offset)
  /\ nCalls' = nCalls + 1
  /\ UNCHANGED <<BLOCK_SIZE, schema, stage, layout_, block, pc, i,
                 written, onlyAllocate, disciplined>>

----------------------------------------------------------------------------
(* One caller at a time: every call runs to its return before the next, and *)
(* the last two calls are recorded with what they returned.                 *)

Observe(call) ==
  /\ last' = call
  /\ prev' = last
  /\ UNCHANGED <<sawFull, sawClaimed>>

SeqAllocate(t) ==
  /\ AllocateCall(t)
  /\ LET r == Allocate(block, layout_, bitmaps, 0, offset[t])
     IN Observe(Call("Allocate", PRIMARY_KEY_OFFSET, r.offset, r.ret, r.offset))

SeqAccessWithNullCheck(t, column_offset, pos) ==
  /\ AccessWithNullCheckCall(t, column_offset, pos)
  /\ LET r == AccessWithNullCheck(block, layout_, bitmaps, column_offset, pos)
     IN Observe(Call("AccessWithNullCheck", column_offset, pos,
                     r.ret.present, r.ret.addr))

SeqAccessForceNotNull(t, column_offset, pos) ==
  /\ AccessForceNotNullCall(t, column_offset, pos)
  /\ LET r == AccessForceNotNull(block, layout_, bitmaps, column_offset, pos)
     IN Observe(Call("AccessForceNotNull", column_offset, pos,
                     r.ret.present, r.ret.addr))

SeqSetNull(t, column_offset, pos) ==
  /\ SetNullCall(t, column_offset, pos)
  /\ Observe(Call("SetNull", column_offset, pos, TRUE, 0))

SeqCall(t) ==
  \/ SeqAllocate(t)
  \/ \E c \in Columns, s \in Slots : SeqAccessWithNullCheck(t, c, s)
  \/ \E c \in Columns, s \in Slots : SeqAccessForceNotNull(t, c, s)
  \/ \E c \in Columns, s \in Slots : SeqSetNull(t, c, s)

NextSeq == SeqCall(SeqCaller)

SpecSeq == InitBlock /\ [][NextSeq]_vars

----------------------------------------------------------------------------
(* The accessors that return an address, applied to a block whose header    *)
(* was written under a layout of the same column count and slot count as    *)
(* the strategy's layout_, which may or may not be layout_ itself.          *)

InitAnyHeader ==
  /\ BLOCK_SIZE \in BlockSizeChoices
  /\ schema \in NarrowSchemas
  /\ HeaderSize(schema.num_attrs) < BLOCK_SIZE
  /\ layout_ = BlockLayout(BLOCK_SIZE, schema.num_attrs, schema.attr_sizes)
  /\ Usable(BLOCK_SIZE, layout_)
  /\ stage = "block"
  /\ \E other \in NarrowSchemas, id \in BlockIdChoices :
       LET under == BlockLayout(BLOCK_SIZE, other.num_attrs, other.attr_sizes)
       IN /\ under.num_attrs_ = layout_.num_attrs_
          /\ under.num_slots_ = layout_.num_slots_
          /\ block = InitializeRawBlock(under, id)
          /\ bitmaps = ZeroedBitmaps(block, under)
  /\ held = [s \in Slots |-> 0]
  /\ forced = [s \in Slots |-> {}]
  /\ written = [s \in Slots |-> {}]
  /\ intended = [c \in Columns |-> [s \in Slots |-> FALSE]]
  /\ InitCallers

AddrColumnNullBitmap(t, column_offset) ==
  /\ ColumnNullBitmapCall(t, column_offset)
  /\ Observe(Call("ColumnNullBitmap", column_offset, 0, TRUE,
                  ColumnNullBitmap(block, column_offset)))

AddrColumnStart(t, column_offset) ==
  /\ ColumnStartCall(t, column_offset)
  /\ Observe(Call("ColumnStart", column_offset, 0, TRUE,
                  ColumnStart(block, layout_, column_offset)))

AddrCall(t) ==
  \/ \E c \in Columns : AddrColumnNullBitmap(t, c)
  \/ \E c \in Columns : AddrColumnStart(t, c)
  \/ \E c \in Columns, s \in Slots : SeqAccessWithNullCheck(t, c, s)
  \/ \E c \in Columns, s \in Slots : SeqAccessForceNotNull(t, c, s)

NextAddr == AddrCall(SeqCaller)

SpecAddr == InitAnyHeader /\ [][NextAddr]_vars

----------------------------------------------------------------------------
(* Threads sharing the block: Allocate takes one step per loop iteration,   *)
(* each a single atomic Flip.                                               *)

AllocateEnter(t) ==
  /\ CanCall(t)
  /\ pc' = [pc EXCEPT ![t] = "Allocate"]
  /\ i' = [i EXCEPT ![t] = 0]
  /\ tried' = [tried EXCEPT ![t] = <<>>]
  /\ nCalls' = nCalls + 1
  /\ UNCHANGED <<BLOCK_SIZE, schema, stage, layout_, block, bitmaps, offset,
                 history, held, forced, written, onlyAllocate,
                 disciplined, intended>>

\* mutant: a failed Flip ends the call with "no space" instead of moving on
AllocateStep_GivesUp(t) ==
  /\ pc[t] = "Allocate"
  /\ i[t] < U32Val(layout_.num_slots_)
  /\ LET it == AllocateIteration(block, bitmaps, i[t])
     IN /\ bitmaps' = it.bitmaps
        /\ AllocateReturns(t, it.found, IF it.found THEN i[t] ELSE offset[t])
  /\ pc' = [pc EXCEPT ![t] = "idle"]
  /\ UNCHANGED <<BLOCK_SIZE, schema, stage, layout_, block, i,
                 written, onlyAllocate, disciplined, nCalls>>

\* mutant: a successful Allocate also counts the record in the header
AllocateStep_CountsRecord(t) ==
  /\ pc[t] = "Allocate"
  /\ i[t] < U32Val(layout_.num_slots_)
  /\ LET it == AllocateIteration(block, bitmaps, i[t])
     IN /\ bitmaps' = it.bitmaps
        /\ IF it.found
           THEN /\ AllocateReturns(t, TRUE, i[t])
                /\ pc' = [pc EXCEPT ![t] = "idle"]
                /\ i' = i
                /\ block' = [block EXCEPT !.num_records_ = @ + 1]
           ELSE /\ i' = [i EXCEPT ![t] = @ + 1]
                /\ tried' = [tried EXCEPT ![t] = Append(@, i[t])]
                /\ UNCHANGED <<pc, offset, history, held, forced, intended, block>>
  /\ UNCHANGED <<BLOCK_SIZE, schema, stage, layout_, written,
                 onlyAllocate, disciplined, nCalls>>

\* mutant: a successful Allocate takes the slot off the header's slot count
AllocateStep_ConsumesSlot(t) ==
  /\ pc[t] = "Allocate"
  /\ i[t] < U32Val(layout_.num_slots_)
  /\ LET it == AllocateIteration(block, bitmaps, i[t])
     IN /\ bitmaps' = it.bitmaps
        /\ IF it.found
           THEN /\ AllocateReturns(t, TRUE, i[t])
                /\ pc' = [pc EXCEPT ![t] = "idle"]
                /\ i' = i
                /\ block' = [block EXCEPT !.num_slots = U32Dec(@)]
           ELSE /\ i' = [i EXCEPT ![t] = @ + 1]
                /\ tried' = [tried EXCEPT ![t] = Append(@, i[t])]
                /\ UNCHANGED <<pc, offset, history, held, forced, intended, block>>
  /\ UNCHANGED <<BLOCK_SIZE, schema, stage, layout_, written,
                 onlyAllocate, disciplined, nCalls>>

\* mutant: after a failed Flip the same index is tried again
AllocateStep_Retries(t) ==
  /\ pc[t] = "Allocate"
  /\ i[t] < U32Val(layout_.num_slots_)
  /\ LET it == AllocateIteration(block, bitmaps, i[t])
     IN /\ bitmaps' = it.bitmaps
        /\ IF it.found
           THEN /\ AllocateReturns(t, TRUE, i[t])
                /\ pc' = [pc EXCEPT ![t] = "idle"]
                /\ i' = i
           ELSE /\ i' = i
                /\ tried' = [tried EXCEPT ![t] = Append(@, i[t])]
                /\ UNCHANGED <<pc, offset, history, held, forced, intended>>
  /\ UNCHANGED <<BLOCK_SIZE, schema, stage, layout_, block, written,
                 onlyAllocate, disciplined, nCalls>>

AllocateStep(t) ==
  /\ pc[t] = "Allocate"
  /\ i[t] < U32Val(layout_.num_slots_)
  /\ LET it == AllocateIteration(block, bitmaps, i[t])
     IN /\ bitmaps' = it.bitmaps
        /\ IF it.found
           THEN /\ AllocateReturns(t, TRUE, i[t])
                /\ pc' = [pc EXCEPT ![t] = "idle"]
                /\ i' = i
           ELSE /\ i' = [i EXCEPT ![t] = @ + 1]
                /\ tried' = [tried EXCEPT ![t] = Append(@, i[t])]
                /\ UNCHANGED <<pc, offset, history, held, forced, intended>>
  /\ UNCHANGED <<BLOCK_SIZE, schema, stage, layout_, block, written,
                 onlyAllocate, disciplined, nCalls>>

\* mutant: the loop variable is stored to the caller's variable on the way out
AllocateNoSpace_WritesOffset(t) ==
  /\ pc[t] = "Allocate"
  /\ ~(i[t] < U32Val(layout_.num_slots_))
  /\ AllocateReturns(t, FALSE, i[t])
  /\ pc' = [pc EXCEPT ![t] = "idle"]
  /\ UNCHANGED <<BLOCK_SIZE, schema, stage, layout_, block, bitmaps, i,
                 written, onlyAllocate, disciplined, nCalls>>

\* mutant: the loop ends one slot early (i < num_slots_ - 1)
AllocateNoSpace_OffByOne(t) ==
  /\ pc[t] = "Allocate"
  /\ ~(i[t] < U32Val(layout_.num_slots_) - 1)
  /\ AllocateReturns(t, FALSE, offset[t])
  /\ pc' = [pc EXCEPT ![t] = "idle"]
  /\ UNCHANGED <<BLOCK_SIZE, schema, stage, layout_, block, bitmaps, i,
                 written, onlyAllocate, disciplined, nCalls>>

AllocateNoSpace(t) ==
  /\ pc[t] = "Allocate"
  /\ ~(i[t] < U32Val(layout_.num_slots_))
  /\ AllocateReturns(t, FALSE, offset[t])
  /\ pc' = [pc EXCEPT ![t] = "idle"]
  /\ UNCHANGED <<BLOCK_SIZE, schema, stage, layout_, block, bitmaps, i,
                 written, onlyAllocate, disciplined, nCalls>>

\* nothing is recorded of the calls: not the last two, not what a thread
\* inside Allocate could have seen
Unobserved == UNCHANGED <<last, prev, sawFull, sawClaimed>>

ThreadStep(t) ==
  \/ AllocateEnter(t) /\ Unobserved
  \/ AllocateStep(t) /\ Unobserved
  \/ AllocateNoSpace(t) /\ Unobserved
  \/ \E c \in Columns : ColumnNullBitmapCall(t, c) /\ Unobserved
  \/ \E c \in Columns : ColumnStartCall(t, c) /\ Unobserved
  \/ \E c \in Columns, s \in Slots :
       AccessWithNullCheckCall(t, c, s) /\ Unobserved
  \/ \E c \in Columns, s \in Slots :
       AccessForceNotNullCall(t, c, s) /\ Unobserved
  \/ \E c \in Columns, s \in Slots :
       SetNullCall(t, c, s) /\ Unobserved

Next == \E t \in Threads : ThreadStep(t)

Spec == InitBlock /\ [][Next]_vars

----------------------------------------------------------------------------
(* Threads that allocate and free slots of the block, and nothing else: the *)
(* threads of Spec and one more.  Of every call inside Allocate it is       *)
(* recorded what the block looked like between its invocation and now.      *)

FreeThreads == 1..(NumThreads + 1)

\* the slots whose presence bit is claimed in bms
Claimed(bms) == {s \in Slots : bms[block.attr_offsets[PRIMARY_KEY_OFFSET]][s]}

Watch ==
  /\ sawFull' =
       [u \in FreeThreads |->
          IF pc'[u] = "Allocate"
          THEN (pc[u] = "Allocate" /\ sawFull[u]) \/ Claimed(bitmaps') = Slots
          ELSE FALSE]
  /\ sawClaimed' =
       [u \in FreeThreads |->
          IF pc'[u] = "Allocate"
          THEN (IF pc[u] = "Allocate" THEN sawClaimed[u] ELSE {})
                 \cup Claimed(bitmaps')
          ELSE {}]
  /\ UNCHANGED <<last, prev>>

FreeStep(t) ==
  \/ AllocateEnter(t) /\ Watch
  \/ AllocateStep(t) /\ Watch
  \/ AllocateNoSpace(t) /\ Watch
  \/ \E s \in Slots : SetNullCall(t, PRIMARY_KEY_OFFSET, s) /\ Watch

NextFree == \E t \in FreeThreads : FreeStep(t)

SpecFree == InitBlockOf(FreeThreads) /\ [][NextFree]_vars

----------------------------------------------------------------------------
(* Threads that are scheduled again *)

\* the step a thread inside Allocate takes when it is scheduled
AllocateRuns(t) == (AllocateStep(t) \/ AllocateNoSpace(t)) /\ Unobserved

\* every thread inside Allocate is scheduled again
SpecFair == Spec /\ \A t \in Threads : WF_vars(AllocateRuns(t))

----------------------------------------------------------------------------
(* Claims about the layout calculator (SpecLayout) *)

ValidSizes(lay) ==
  \A c \in 0..(lay.num_attrs_ - 1) : lay.attr_sizes_[c] \in 1..255

\* C8: for every layout whose attribute sizes are 1..255 bytes and whose
\* header_size is below BLOCK_SIZE, the computed slot_count satisfies
\* header_size + sum_i (ceil(slot_count / 8) + slot_count * attribute_sizes[i])
\* <= BLOCK_SIZE.
C8_SlotsFitBlock ==
  (stage # "schema" /\ ValidSizes(layout_) /\ layout_.header_size_ < BLOCK_SIZE)
    => LayoutFits(BLOCK_SIZE, layout_)

\* the same, for the 1 MB block of the header comment alone
C8_SlotsFitMegabyteBlock ==
  BLOCK_SIZE = 1024 * 1024 => C8_SlotsFitBlock

\* the claim holds of the layouts in which at least one tuple fits
C8_HoldsWithoutWrap ==
  (stage # "schema" /\ ValidSizes(layout_) /\ layout_.header_size_ < BLOCK_SIZE
     /\ 8 * (BLOCK_SIZE - layout_.header_size_)
          >= 8 * layout_.tuple_size_ + layout_.num_attrs_)
    => LayoutFits(BLOCK_SIZE, layout_)

----------------------------------------------------------------------------
(* Claims about the accessors, one caller at a time (SpecSeq) *)

NumSlotsOfBlock == U32Val(layout_.num_slots_)

\* what AccessWithNullCheck would return in the current state
Reads(column_offset, pos) ==
  AccessWithNullCheck(block, layout_, bitmaps, column_offset, pos).ret

PresenceBits == bitmaps[Column(block, PRIMARY_KEY_OFFSET)]

FreeSlots == {s \in Slots : ~PresenceBits[s]}

SameCoordinates(a, b) == a.column_offset = b.column_offset /\ a.pos = b.pos

\* C3: sequential Allocate calls on a fresh block, nothing else in between: the
\* first slot_count calls succeed with pairwise distinct slots in
\* 0..slot_count-1, and every later call returns "no space".
C3_SequentialAllocate ==
  onlyAllocate =>
    \A k \in 1..Len(history) :
      IF k <= NumSlotsOfBlock
      THEN /\ history[k].ok
           /\ history[k].offset \in Slots
           /\ \A j \in 1..(k - 1) : history[j].offset # history[k].offset
      ELSE ~history[k].ok

C3_Witness ==
  /\ onlyAllocate
  /\ NumSlotsOfBlock = 2
  /\ Len(history) = 4
  /\ history[2].ok
  /\ ~history[3].ok

\* C4: AccessForceNotNull(c, s) directly followed by AccessWithNullCheck(c, s)
\* gives a present result, and both return column_start(c) + s * attr_sizes[c].
C4_WriteThenRead ==
  (prev.op = "AccessForceNotNull" /\ last.op = "AccessWithNullCheck"
     /\ SameCoordinates(prev, last))
    => /\ last.ok
       /\ prev.ok
       /\ last.value = prev.value
       /\ last.value = ColumnStart(block, layout_, last.column_offset)
                         + last.pos * layout_.attr_sizes_[last.column_offset]

C4_Witness ==
  /\ prev.op = "AccessForceNotNull"
  /\ last.op = "AccessWithNullCheck"
  /\ SameCoordinates(prev, last)
  /\ last.column_offset = 1
  /\ last.pos = 2
  /\ last.ok

\* C5: SetNull(c, s) directly followed by AccessWithNullCheck(c, s) gives absent.
C5_SetNullThenRead ==
  (prev.op = "SetNull" /\ last.op = "AccessWithNullCheck"
     /\ SameCoordinates(prev, last))
    => ~last.ok

\* the bit had been forced not-null before it was set null
C5_Witness ==
  /\ prev.op = "SetNull"
  /\ last.op = "AccessWithNullCheck"
  /\ SameCoordinates(prev, last)
  /\ last.column_offset \in forced[last.pos]
  /\ ~last.ok

\* C6: with one caller, Allocate returns the lowest slot whose presence bit is
\* free and claims exactly that bit; it returns "no space" iff no slot is free.
C6_AllocateLowestFree ==
  [][Len(history') = Len(history) + 1 =>
       LET r == history'[Len(history')]
           a == Column(block, PRIMARY_KEY_OFFSET)
       IN IF FreeSlots = {}
          THEN ~r.ok /\ bitmaps' = bitmaps
          ELSE /\ r.ok
               /\ r.offset \in FreeSlots
               /\ \A s \in FreeSlots : r.offset <= s
               /\ bitmaps' = [bitmaps EXCEPT ![a][r.offset] = TRUE]]_vars

\* slot 0 is freed while slot 1 stays claimed; the next Allocate returns 0
C6_Witness ==
  /\ prev.op = "SetNull"
  /\ prev.column_offset = PRIMARY_KEY_OFFSET
  /\ prev.pos = 0
  /\ last.op = "Allocate"
  /\ last.ok
  /\ last.value = 0
  /\ 2 \in FreeSlots
  /\ 1 \notin FreeSlots

\* C7: right after initialization every (column, slot) reads absent and every
\* slot is free for Allocate; a read made as the first call returns absent.
C7_FreshBlockEmpty ==
  /\ (stage = "block" /\ nCalls = 0) =>
       /\ \A c \in Columns, s \in Slots : ~Reads(c, s).present
       /\ \A s \in Slots : AllocateIteration(block, bitmaps, s).found
  /\ (nCalls = 1 /\ last.op = "AccessWithNullCheck") => ~last.ok

C7_Witness ==
  /\ nCalls = 1
  /\ last.op = "AccessWithNullCheck"
  /\ last.column_offset = 1
  /\ last.pos = 2
  /\ ~last.ok

\* C9: AccessWithNullCheck changes no null bit and no header field, whether it
\* returns a pointer or nullptr.
C9_ReadLeavesBlock ==
  [][(nCalls' = nCalls + 1 /\ last'.op = "AccessWithNullCheck")
       => (bitmaps' = bitmaps /\ block' = block)]_vars

\* a read that returned nullptr, then a read that returned a pointer
C9_Witness ==
  /\ prev.op = "AccessWithNullCheck"
  /\ ~prev.ok
  /\ last.op = "AccessWithNullCheck"
  /\ last.ok

\* C10 as claimed: while a slot s returned by Allocate is not freed, every
\* non-primary-key column not forced not-null since that Allocate returned
\* reads absent at s.  Stated of the runs that write and free held slots only.
C10_AllocatedSlotReadsAbsent ==
  \A s \in Slots :
    (disciplined /\ held[s] > 0) =>
      \A c \in Columns \ {PRIMARY_KEY_OFFSET} :
        c \notin forced[s] => ~Reads(c, s).present

\* C10, amended: while a slot s returned by Allocate is not freed, every
\* non-primary-key column not forced not-null since the block was initialized
\* or since the column's last SetNull at s reads absent at s.
C10_UnwrittenColumnsReadAbsent ==
  \A s \in Slots :
    held[s] > 0 =>
      \A c \in Columns \ {PRIMARY_KEY_OFFSET} :
        c \notin written[s] => ~Reads(c, s).present

\* slot 0 is allocated, freed and allocated again; column 1 was never written
C10_Witness ==
  /\ Len(history) = 2
  /\ history[1].ok /\ history[1].offset = 0
  /\ history[2].ok /\ history[2].offset = 0
  /\ held[0] = 1
  /\ 1 \in Columns
  /\ 1 \notin written[0]
  /\ ~Reads(1, 0).present

----------------------------------------------------------------------------
(* Claims about threads sharing the block (Spec) *)

\* C1: a slot is never held by two callers: between two Allocate returns of a
\* slot s there is a SetNull on the primary-key column at s.
C1_NoDoubleAllocation == \A s \in Slots : held[s] <= 1

\* a slot is returned, freed, and returned again while another slot is held
C1_Witness ==
  \E j, k \in 1..Len(history) :
    /\ j < k
    /\ history[j].ok /\ history[k].ok
    /\ history[j].offset = history[k].offset
    /\ held[history[k].offset] = 1
    /\ \E s \in Slots : s # history[k].offset /\ held[s] = 1

\* C2: N Allocate calls by concurrent threads on a fresh block of K slots, and
\* nothing else: once all have returned, exactly min(N, K) succeeded, with
\* pairwise distinct slots, and the other N - min(N, K) returned "no space".
C2_ConcurrentAllocate ==
  (onlyAllocate /\ \A t \in Threads : pc[t] = "idle") =>
    LET N == Len(history)
        K == NumSlotsOfBlock
        m == IF N <= K THEN N ELSE K
        succeeded == {k \in 1..N : history[k].ok}
    IN /\ N = nCalls
       /\ Cardinality(succeeded) = m
       /\ Cardinality({history[k].offset : k \in succeeded}) = m
       /\ \A k \in succeeded : history[k].offset \in Slots
       /\ Cardinality((1..N) \ succeeded) = N - m

\* four calls on a block of three slots: two threads obtained a slot other
\* than 0, and one call found no space
C2_Witness ==
  /\ onlyAllocate
  /\ \A t \in Threads : pc[t] = "idle"
  /\ NumSlotsOfBlock = 3
  /\ Len(history) = 4
  /\ \E k \in 1..4 : ~history[k].ok
  /\ \E t, u \in Threads : t # u /\ offset[t] # 0 /\ offset[u] # 0

\* bit s of the null bitmap of column c, found through the header's offset
BitAt(bms, c, s) == bms[block.attr_offsets[c]][s]

\* the bits the step changes
ChangedBits ==
  {b \in Columns \X Slots : BitAt(bitmaps', b[1], b[2]) # BitAt(bitmaps, b[1], b[2])}

\* the bit the step's operation is on, as far as it set a new value:
\* AccessForceNotNull(c, s) and SetNull(c, s) are on (c, s), an Allocate that
\* returns s is on the primary-key bit of s
OperatedBits ==
  {b \in Columns \X Slots : intended'[b[1]][b[2]] # intended[b[1]][b[2]]}

\* C11: AccessForceNotNull(c, s) and SetNull(c, s) leave every bit other than
\* (c, s) unchanged, an Allocate step changes at most the primary-key bit of the
\* slot it returns, and under every interleaving each bit has the value the
\* last operation on that bit set (no lost update).
C11_OneBitPerOperation ==
  /\ [](stage = "block" =>
         \A c \in Columns, s \in Slots : BitAt(bitmaps, c, s) = intended[c][s])
  /\ [][/\ bitmaps' # bitmaps =>
             (Cardinality(ChangedBits) = 1 /\ ChangedBits \subseteq OperatedBits)
        /\ \A t \in Threads :
             (pc[t] = "Allocate" /\ pc'[t] = "idle") =>
                IF history'[Len(history')].ok
                THEN ChangedBits = {<<PRIMARY_KEY_OFFSET, offset'[t]>>}
                ELSE bitmaps' = bitmaps
        /\ \A u \in Threads :
             (pc[u] = "Allocate" /\ pc'[u] = "Allocate") =>
                (tried'[u] = tried[u] \/ bitmaps' = bitmaps)]_vars

\* a thread inside Allocate found slot 0 claimed; since then slot 0 was freed
\* and another bit was forced not-null by other calls
C11_Witness ==
  /\ \E t \in Threads : pc[t] = "Allocate" /\ i[t] = 1
  /\ 1 \in Columns /\ 1 \in Slots
  /\ ~intended[PRIMARY_KEY_OFFSET][0] /\ ~BitAt(bitmaps, PRIMARY_KEY_OFFSET, 0)
  /\ intended[1][1] /\ BitAt(bitmaps, 1, 1)

\* the slots whose primary-key presence bit is claimed
ClaimedSlots == {s \in Slots : BitAt(bitmaps, PRIMARY_KEY_OFFSET, s)}

\* C12 as claimed: in every reachable state of an initialized block,
\* record_count equals the number of slots whose presence bit is claimed.
\* Stated of the runs that write and free held slots only.
C12_RecordCountIsClaimedSlots ==
  (stage = "block" /\ disciplined)
    => block.num_records_ = Cardinality(ClaimedSlots)

\* C12, amended: record_count keeps the value initialization left, 0, across
\* every sequence of Allocate, AccessForceNotNull and SetNull, whatever the
\* number of claimed slots.
C12_RecordCountUntouched ==
  stage = "block" => block.num_records_ = 0

\* two slots are claimed, one of them freed and claimed again
C12_Witness ==
  /\ Cardinality(ClaimedSlots) = 2
  /\ \E j, k \in 1..Len(history) :
       j < k /\ history[j].ok /\ history[k].ok /\ history[j].offset = history[k].offset
  /\ block.num_records_ = 0

\* the header fields that are written at initialization only
HeaderFields(blk) ==
  <<blk.block_id_, blk.num_slots, blk.attr_offsets, blk.num_attrs, blk.attr_sizes>>

\* C13: after initialization no operation of TupleAccessStrategy changes the
\* header's block_id, slot_count, attribute_offsets, attribute_count or
\* attribute_sizes, and the header's slot_count equals the layout's slot_count
\* in every reachable state.
C13_HeaderImmutable ==
  /\ [](stage = "block" => block.num_slots = layout_.num_slots_)
  /\ [][stage = "block" => HeaderFields(block') = HeaderFields(block)]_vars

\* every call was made, slots are claimed and columns written, and the header
\* is the one initialization wrote
C13_Witness ==
  /\ nCalls = MaxCalls
  /\ ClaimedSlots # {}
  /\ \E s \in Slots : written[s] \ {PRIMARY_KEY_OFFSET} # {}
  /\ \E k \in 1..Len(history) : ~history[k].ok
  /\ block = InitializeRawBlock(layout_, block.block_id_)

\* C14: an Allocate call returns a slot or "no space" after at most slot_count
\* Flip attempts, whatever the other threads do in between: it passes the
\* indices 0, 1, 2, ... to Flip once each, its next step is enabled in every
\* state (it waits for nobody), and each of its steps either returns or adds
\* one index, so that it returns within slot_count + 1 steps of its own.
C14_AllocateTerminates ==
  /\ [](\A t \in Threads :
          pc[t] = "Allocate" =>
            /\ i[t] <= NumSlotsOfBlock
            /\ tried[t] = [k \in 1..i[t] |-> k - 1]
            /\ ENABLED AllocateRuns(t))
  /\ [][\A t \in Threads :
          (pc[t] = "Allocate" /\ <<pc'[t], tried'[t]>> # <<pc[t], tried[t]>>) =>
            \/ pc'[t] = "idle" /\ history'[Len(history')].ok
                 /\ Len(tried[t]) + 1 <= NumSlotsOfBlock
            \/ pc'[t] = "idle" /\ ~history'[Len(history')].ok
                 /\ Len(tried[t]) = NumSlotsOfBlock
            \/ pc'[t] = "Allocate" /\ Len(tried'[t]) = Len(tried[t]) + 1]_vars

\* the same as a liveness property of SpecFair: a thread inside Allocate that
\* keeps being scheduled returns
C14_AllocateReturns ==
  \A t \in Threads : (pc[t] = "Allocate") ~> (pc[t] = "idle")

\* a thread has failed at slots 0 and 1 and another at slot 0, both still
\* inside Allocate, in a block of three slots
C14_Witness ==
  \E t, u \in Threads :
    /\ t # u
    /\ NumSlotsOfBlock = 3
    /\ pc[t] = "Allocate" /\ tried[t] = <<0, 1>>
    /\ pc[u] = "Allocate" /\ tried[u] = <<0>>

\* the step is thread t's Allocate returning a slot
ReturnsSlot(t) ==
  pc[t] = "Allocate" /\ pc'[t] = "idle" /\ history'[Len(history')].ok

\* C15: an Allocate call that returns "no space" has changed nothing: each of
\* its steps left every null bit as it was, and from its invocation to its
\* return the caller's offset variable kept its value.
C15_NoSpaceChangesNothing ==
  [][\A t \in Threads :
       (pc[t] = "Allocate" /\ ~ReturnsSlot(t)) =>
          /\ offset'[t] = offset[t]
          /\ <<pc'[t], tried'[t]>> # <<pc[t], tried[t]>> => bitmaps' = bitmaps]_vars

\* a call returned "no space" and left 1, the slot of the caller's earlier
\* call, in the caller's variable
C15_Witness ==
  /\ \A t \in Threads : pc[t] = "idle"
  /\ Len(history) >= 1
  /\ ~history[Len(history)].ok
  /\ history[Len(history)].offset = 1
  /\ \E t \in Threads : offset[t] = 1

----------------------------------------------------------------------------
(* Claims about threads that allocate and free (SpecFree) *)

\* the step is thread t's Allocate returning "no space"
ReturnsNoSpace(t) ==
  pc[t] = "Allocate" /\ pc'[t] = "idle" /\ ~history'[Len(history')].ok

\* C16 as claimed: with threads running Allocate and SetNull(0, s), an Allocate
\* call returns "no space" only if at some moment between its invocation and
\* its return every slot was claimed.
C16_NoSpaceLinearizable ==
  [][\A t \in FreeThreads : ReturnsNoSpace(t) => sawFull[t]]_vars

\* C16, amended: an Allocate call returns "no space" only if every slot was
\* claimed at some moment between its invocation and its return, not
\* necessarily all at the same moment.
C16_NoSpaceSawEachSlotClaimed ==
  [][\A t \in FreeThreads : ReturnsNoSpace(t) => sawClaimed[t] = Slots]_vars

\* a call about to return "no space" from a block of two or more slots that
\* had a free slot at every moment since the call's invocation
C16_Witness ==
  \E t \in FreeThreads :
    /\ pc[t] = "Allocate"
    /\ NumSlotsOfBlock >= 2
    /\ i[t] = NumSlotsOfBlock
    /\ ~sawFull[t]
    /\ sawClaimed[t] = Slots

----------------------------------------------------------------------------
(* Claims about the addresses the accessors return (SpecAddr) *)

\* the block InitializeRawBlock writes under the strategy's own layout
BlockOfLayout == InitializeRawBlock(layout_, block.block_id_)

\* what the last call returns when made on block blk, the null bits being the
\* same
LastCallOn(blk) ==
  CASE last.op = "ColumnNullBitmap" ->
         Pointer(ColumnNullBitmap(blk, last.column_offset))
    [] last.op = "ColumnStart" ->
         Pointer(ColumnStart(blk, layout_, last.column_offset))
    [] last.op = "AccessWithNullCheck" ->
         IF last.ok
         THEN Pointer(ColumnStart(blk, layout_, last.column_offset)
                      + layout_.attr_sizes_[last.column_offset] * last.pos)
         ELSE nullptr
    [] last.op = "AccessForceNotNull" ->
         Pointer(ColumnStart(blk, layout_, last.column_offset)
                 + layout_.attr_sizes_[last.column_offset] * last.pos)
    [] OTHER -> nullptr

LastResult ==
  IF last.op = "AccessWithNullCheck" /\ ~last.ok THEN nullptr ELSE Pointer(last.value)

\* C17: the address ColumnNullBitmap, ColumnStart, AccessWithNullCheck and
\* AccessForceNotNull return is a function of the block's base, the layout and
\* (column, slot) only: on a block whose header holds other attr_offsets it is
\* the address returned on the block initialized under the layout.
C17_AddressFromLayoutOnly ==
  (stage = "block" /\ last.op # "none") => LastResult = LastCallOn(BlockOfLayout)

\* headers that agree with blk on attr_offsets and differ in the other fields
HeaderVariants(blk) ==
  {[blk EXCEPT !.block_id_ = id, !.num_records_ = n, !.num_slots = U32(k),
               !.num_attrs = s.num_attrs, !.attr_sizes = s.attr_sizes] :
     id \in BlockIdChoices \cup {0}, n \in {0, 1}, k \in 0..MaxSlots,
     s \in NarrowSchemas}

\* what does hold: the address is a function of the layout, (column, slot) and
\* the header's attr_offsets; no other header field is read
C17_AddressFromLayoutAndOffsets ==
  (stage = "block" /\ last.op # "none") =>
    \A blk \in HeaderVariants(block) : LastResult = LastCallOn(blk)

----------------------------------------------------------------------------
(* Claims about the placement of the mini-blocks (SpecLayout) *)

\* the slots of the block among the first MaxSlots
SlotsInView ==
  {s \in 0..(MaxSlots - 1) :
     U32Small(layout_.num_slots_) => s < U32Val(layout_.num_slots_)}

\* byte ranges of the block, as <<first byte, byte after the last>>
HeaderBytes == <<0, layout_.header_size_>>

BitmapBytesOf(c) ==
  <<ColumnNullBitmap(block, c),
    ColumnNullBitmap(block, c) + BitmapBytes(layout_.num_slots_)>>

ValueBytes(c, s) ==
  LET a == ColumnStart(block, layout_, c) + layout_.attr_sizes_[c] * s
  IN <<a, a + layout_.attr_sizes_[c]>>

Apart(r, q) == r[2] <= q[1] \/ q[2] <= r[1]

\* mini-block c + 1 starts where mini-block c ends
Contiguous(c) ==
  /\ U32Small(layout_.num_slots_)
  /\ block.attr_offsets[c + 1]
       = block.attr_offsets[c] + BitmapBytes(layout_.num_slots_)
         + U32Val(layout_.num_slots_) * layout_.attr_sizes_[c]

MiniBlocksPlaced ==
  /\ block.attr_offsets[0] = layout_.header_size_
  /\ \A c \in Columns : c + 1 \in Columns => Contiguous(c)
  /\ \A c \in Columns, s \in SlotsInView :
       /\ \A d \in Columns, r \in SlotsInView :
            <<c, s>> # <<d, r>> => Apart(ValueBytes(c, s), ValueBytes(d, r))
       /\ \A d \in Columns : Apart(ValueBytes(c, s), BitmapBytesOf(d))
       /\ Apart(ValueBytes(c, s), HeaderBytes)
       /\ ValueBytes(c, s)[2] <= BLOCK_SIZE

\* C18: in an initialized block attr_offsets[0] = header_size and
\* attr_offsets[c+1] = attr_offsets[c] + ceil(slot_count/8)
\* + slot_count * attr_sizes[c]; the value byte ranges of distinct (c, s) with
\* s < slot_count are disjoint, overlap no null bitmap and no header byte, and
\* end at or before BLOCK_SIZE.
C18_MiniBlocksContiguousAndDisjoint ==
  (stage = "block" /\ ValidSizes(layout_)) => MiniBlocksPlaced

\* the same holds of the blocks whose layout has at least one tuple fit
C18_HoldsWithoutWrap ==
  (stage = "block" /\ ValidSizes(layout_)
     /\ 8 * (BLOCK_SIZE - layout_.header_size_)
          >= 8 * layout_.tuple_size_ + layout_.num_attrs_)
    => MiniBlocksPlaced

----------------------------------------------------------------------------
(* The 1 MB block of the header comment (SpecLayout) *)

Megabyte == 1024 * 1024

\* C19: with BLOCK_SIZE = 1 MB, every layout with fewer than 65535 columns,
\* each of 1..255 bytes, has a slot count of at least 1, computed with no
\* unsigned 32-bit wrap-around: at least one whole tuple fits in a block.
C19_MegabyteBlockHoldsATuple ==
  (stage # "schema" /\ BLOCK_SIZE = Megabyte /\ layout_.num_attrs_ < 65535
     /\ ValidSizes(layout_))
    => (U32Small(layout_.num_slots_) /\ U32Val(layout_.num_slots_) >= 1)

\* the claim holds of the layouts whose tuple, with its null bits twice over,
\* fits beside the header
C19_HoldsOfNarrowTuples ==
  (stage # "schema" /\ BLOCK_SIZE = Megabyte /\ layout_.num_attrs_ < 65535
     /\ ValidSizes(layout_)
     /\ 8 * (BLOCK_SIZE - layout_.header_size_)
          >= 2 * (8 * layout_.tuple_size_ + layout_.num_attrs_))
    => (U32Small(layout_.num_slots_) /\ U32Val(layout_.num_slots_) >= 1)

----------------------------------------------------------------------------
(* Repeating AccessForceNotNull or SetNull (SpecSeq) *)

\* the bit the call that has just returned addresses, before and after the call
BitOfCall(bms) == BitAt(bms, last'.column_offset, last'.pos)

\* C20: AccessForceNotNull on (c, s) whose bit already denotes not null changes
\* no bit, SetNull on (c, s) whose bit already denotes null changes no bit, and
\* either operation applied twice in a row leaves the block state that applying
\* it once leaves.
C20_ForceNotNullAndSetNullIdempotent ==
  [][/\ (last'.op = "AccessForceNotNull" /\ BitOfCall(bitmaps))
          => bitmaps' = bitmaps
     /\ (last'.op = "SetNull" /\ ~BitOfCall(bitmaps))
          => bitmaps' = bitmaps
     /\ (/\ last.op \in {"AccessForceNotNull", "SetNull"}
         /\ last'.op = last.op
         /\ SameCoordinates(last', last))
          => <<block, bitmaps>>' = <<block, bitmaps>>
     /\ last'.op = "AccessForceNotNull" => BitOfCall(bitmaps')
     /\ last'.op = "SetNull" => ~BitOfCall(bitmaps')]_vars

\* SetNull was called twice in a row on a bit that was set, and
\* AccessForceNotNull can now be called twice on it
C20_Witness ==
  /\ stage = "block"
  /\ prev.op = "SetNull" /\ last.op = "SetNull" /\ SameCoordinates(prev, last)
  /\ last.column_offset # PRIMARY_KEY_OFFSET
  /\ ~BitAt(bitmaps, last.column_offset, last.pos)
  /\ \E s \in Slots : BitAt(bitmaps, PRIMARY_KEY_OFFSET, s)
  /\ nCalls = 3

====
